---------------------------- MODULE Spec2Model ----------------------------
(***************************************************************************)
(* A model of fireworks' CommonAdapter (PBS / SGE / SLURM queue adapter),  *)
(* src/fireworks/user_objects/queue_adapters/common_adapter.py.            *)
(*                                                                         *)
(* Python strings are sequences of one-character strings, so that split,   *)
(* slicing, startswith, `in` and the digit regex are computed character by *)
(* character as the code computes them.  A dict is a function whose domain *)
(* is a set of such strings.  None is the one-element tuple <<"<None>">>,  *)
(* which is no string of characters.                                       *)
(***************************************************************************)
EXTENDS Integers, Sequences, FiniteSets, TLC

VARIABLES adapter, last, events

vars == <<adapter, last, events>>

---------------------------------------------------------------------------
(* Python values and string primitives                                     *)

None == <<"<None>">>

EmptyDict == [k \in {} |-> None]

S_job == <<"j", "o", "b">>
S_S == <<"S">>
S_C == <<"C">>
S_Queue == <<"Q", "u", "e", "u", "e">>
S_state == <<"s", "t", "a", "t", "e">>
S_queue == <<"q", "u", "e", "u", "e">>
S_PBS == <<"P", "B", "S">>
S_SGE == <<"S", "G", "E">>
S_SLURM == <<"S", "L", "U", "R", "M">>
S_sbatch == <<"s", "b", "a", "t", "c", "h">>
S_qsub == <<"q", "s", "u", "b">>
S_squeue == <<"s", "q", "u", "e", "u", "e">>
S_qstat == <<"q", "s", "t", "a", "t">>
S_qadapter == <<"q", "a", "d", "a", "p", "t", "e", "r", ".">>
S_fw == <<"_", "f", "w">>
S_fw_q_type == <<"_", "f", "w", "_", "q", "_", "t", "y", "p", "e">>
S_fw_q_name == <<"_", "f", "w", "_", "q", "_", "n", "a", "m", "e">>
S_fw_template_file == <<"_", "f", "w", "_", "t", "e", "m", "p", "l", "a", "t", "e", "_", "f", "i", "l", "e">>
S_template_txt == <<"_", "t", "e", "m", "p", "l", "a", "t", "e", ".", "t", "x", "t">>

UpperChars == <<"A", "B", "C", "D", "E", "F", "G", "H", "I", "J", "K", "L", "M",
                "N", "O", "P", "Q", "R", "S", "T", "U", "V", "W", "X", "Y", "Z">>
LowerChars == <<"a", "b", "c", "d", "e", "f", "g", "h", "i", "j", "k", "l", "m",
                "n", "o", "p", "q", "r", "s", "t", "u", "v", "w", "x", "y", "z">>
DigitChars == <<"0", "1", "2", "3", "4", "5", "6", "7", "8", "9">>

IsSpace(c) == c \in {" ", "\n", "\t"}

IsDigit(c) == \E i \in 1..Len(DigitChars) : DigitChars[i] = c

DigitVal(c) == (CHOOSE i \in 1..Len(DigitChars) : DigitChars[i] = c) - 1

LowerChar(c) ==
    IF \E i \in 1..Len(UpperChars) : UpperChars[i] = c
    THEN LowerChars[CHOOSE i \in 1..Len(UpperChars) : UpperChars[i] = c]
    ELSE c

\* str.lower()
lower(s) == [i \in 1..Len(s) |-> LowerChar(s[i])]

\* str.startswith(prefix)
startswith(s, prefix) ==
    /\ Len(prefix) <= Len(s)
    /\ SubSeq(s, 1, Len(prefix)) = prefix

\* `sub in s` for strings: sub occurs at some offset of s
contains(s, sub) ==
    \E i \in 0..(Len(s) - Len(sub)) : SubSeq(s, i + 1, i + Len(sub)) = sub

\* s[0:n] for n >= 0
slice0(s, n) == SubSeq(s, 1, IF n < Len(s) THEN n ELSE Len(s))

\* str.split(sep) for a one-character separator: empty fields are kept
RECURSIVE split_on(_, _, _, _)
split_on(s, sep, i, cur) ==
    IF i > Len(s) THEN <<cur>>
    ELSE IF s[i] = sep THEN <<cur>> \o split_on(s, sep, i + 1, <<>>)
    ELSE split_on(s, sep, i + 1, Append(cur, s[i]))

split_lines(s) == split_on(s, "\n", 1, <<>>)

\* str.split(): split on runs of whitespace, no empty tokens
RECURSIVE split_ws(_, _, _)
split_ws(s, i, cur) ==
    IF i > Len(s) THEN (IF cur = <<>> THEN <<>> ELSE <<cur>>)
    ELSE IF IsSpace(s[i])
         THEN (IF cur = <<>> THEN <<>> ELSE <<cur>>) \o split_ws(s, i + 1, <<>>)
         ELSE split_ws(s, i + 1, Append(cur, s[i]))

split(s) == split_ws(s, 1, <<>>)

\* list.index(x): the first position (0-based) of x, or -1 for ValueError
index(list, x) ==
    IF \E i \in 1..Len(list) : list[i] = x
    THEN (CHOOSE i \in 1..Len(list) :
              list[i] = x /\ \A j \in 1..(i - 1) : list[j] # x) - 1
    ELSE -1

\* list[i] with Python's negative indices; InRange is false on IndexError
InRange(list, i) == -Len(list) <= i /\ i < Len(list)

item(list, i) == IF i >= 0 THEN list[i + 1] ELSE list[Len(list) + i + 1]

---------------------------------------------------------------------------
(* Results of a call: a returned value or a raised exception               *)

Return(v) == [kind |-> "return", val |-> v]

Raise(e) == [kind |-> "raise", exc |-> e]

PyNone == [t |-> "None"]

PyInt(n) == [t |-> "int", n |-> n]

PyStr(s) == [t |-> "str", s |-> s]

\* d[k] = v on a dict
DictSet(d, k, v) == [x \in (DOMAIN d) \cup {k} |-> IF x = k THEN v ELSE d[x]]

\* d.get(k)
DictGet(d, k) == IF k \in DOMAIN d THEN d[k] ELSE None

---------------------------------------------------------------------------
(* The environment of the process: working directory, install directory,   *)
(* and the files that exist                                                *)

Cwd == <<"/", "w">>

InstallDir == <<"/", "i">>

ScriptOk == <<"j", ".", "s", "h">>

ScriptMissing == <<"n", "o", ".", "s", "h">>

ExistingFiles == {ScriptOk}

\* os.path.exists
exists(path) == path \in ExistingFiles

\* os.path.abspath, on paths without ".", ".." or doubled separators
abspath(path) ==
    IF path = <<>> THEN Cwd
    ELSE IF path[1] = "/" THEN path
    ELSE Cwd \o <<"/">> \o path

---------------------------------------------------------------------------
(* Construction and serialization                                          *)

supported_q_types == <<S_PBS, S_SGE, S_SLURM>>

_get_default_template_file(q_type) ==
    InstallDir \o <<"/">> \o q_type \o S_template_txt

NoAdapter == [none |-> TRUE]

\* the assignments of __init__ (lines 47-52)
new_adapter(q_type, q_name, template_file, kwargs) ==
    [q_type |-> q_type,
     template_file |-> IF template_file # None
                       THEN abspath(template_file)
                       ELSE _get_default_template_file(q_type),
     submit_cmd |-> IF q_type = S_SLURM THEN S_sbatch ELSE S_qsub,
     q_name |-> IF q_name # None /\ q_name # <<>> THEN q_name ELSE q_type,
     opts |-> kwargs]

\* a constructor that skips the supported_q_types check
init_unchecked(q_type, q_name, template_file, kwargs) ==
    Return(new_adapter(q_type, q_name, template_file, kwargs))

__init__(q_type, q_name, template_file, kwargs) ==
    IF ~(\E i \in 1..Len(supported_q_types) : supported_q_types[i] = q_type)
    THEN Raise("ValueError")
    ELSE Return(new_adapter(q_type, q_name, template_file, kwargs))

\* the mapping to_dict builds (lines 183-191)
to_dict_items(self) ==
    LET d0 == self.opts
        d1 == DictSet(d0, S_fw_q_type, self.q_type)
        d2 == IF self.q_name # self.q_type
              THEN DictSet(d1, S_fw_q_name, self.q_name) ELSE d1
    IN  IF self.template_file # _get_default_template_file(self.q_type)
        THEN DictSet(d2, S_fw_template_file, self.template_file) ELSE d2

\* a to_dict that writes the reserved keys into self (d = self, not dict(self))
to_dict_aliased(self) ==
    [self |-> [self EXCEPT !.opts = to_dict_items(self)],
     outcome |-> Return(to_dict_items(self))]

\* d = dict(self) is a copy: self is left alone
to_dict(self) ==
    [self |-> self, outcome |-> Return(to_dict_items(self))]

\* a from_dict that passes every key through as open configuration
from_dict_unfiltered(m_dict) ==
    __init__(m_dict[S_fw_q_type],
             DictGet(m_dict, S_fw_q_name),
             DictGet(m_dict, S_fw_template_file),
             m_dict)

from_dict(m_dict) ==
    LET keys == {k \in DOMAIN m_dict : ~startswith(k, S_fw)}
    IN  __init__(m_dict[S_fw_q_type],
                 DictGet(m_dict, S_fw_q_name),
                 DictGet(m_dict, S_fw_template_file),
                 [k \in keys |-> m_dict[k]])

---------------------------------------------------------------------------
(* Parsing the submit command's output                                     *)

\* the decimal value of a string of digits
RECURSIVE digits_value(_, _, _)
digits_value(s, i, acc) ==
    IF i > Len(s) THEN acc
    ELSE digits_value(s, i + 1, 10 * acc + DigitVal(s[i]))

\* int(tok) for a whitespace-free token: an optional sign, then digits only
int(tok) ==
    LET signed == Len(tok) >= 1 /\ tok[1] \in {"+", "-"}
        digits == IF signed THEN SubSeq(tok, 2, Len(tok)) ELSE tok
    IN  IF digits = <<>> \/ \E i \in 1..Len(digits) : ~IsDigit(digits[i])
        THEN Raise("ValueError")
        ELSE Return(PyInt(IF signed /\ tok[1] = "-"
                          THEN 0 - digits_value(digits, 1, 0)
                          ELSE digits_value(digits, 1, 0)))

\* the end of the greedy \d+ match that starts at position i
RECURSIVE digits_end(_, _)
digits_end(s, i) ==
    IF i + 1 <= Len(s) /\ IsDigit(s[i + 1]) THEN digits_end(s, i + 1) ELSE i

\* re.search("(\d+)", s): the leftmost match, scanning from position i
RECURSIVE re_search_digits(_, _)
re_search_digits(s, i) ==
    IF i > Len(s) THEN None
    ELSE IF IsDigit(s[i]) THEN SubSeq(s, i, digits_end(s, i))
    ELSE re_search_digits(s, i + 1)

\* a parser that takes split()[4] for SLURM and, for PBS and SGE, the digit
\* run only when it opens the output
parse_jobid_shifted(self, output_str) ==
    IF self.q_type = S_SLURM
    THEN LET toks == split(output_str)
         IN  IF ~InRange(toks, 4) THEN Raise("IndexError") ELSE int(item(toks, 4))
    ELSE IF output_str # <<>> /\ IsDigit(output_str[1])
         THEN Return(PyStr(SubSeq(output_str, 1, digits_end(output_str, 1))))
         ELSE Raise("RuntimeError")

_parse_jobid(self, output_str) ==
    IF self.q_type = S_SLURM
    THEN LET toks == split(output_str)
         IN  IF ~InRange(toks, 3) THEN Raise("IndexError") ELSE int(item(toks, 3))
    ELSE LET m == re_search_digits(output_str, 1)
         IN  IF m # None THEN Return(PyStr(m)) ELSE Raise("RuntimeError")

---------------------------------------------------------------------------
(* Parsing the status command's output                                     *)

_get_status_cmd(self, username) ==
    IF self.q_type = S_SLURM
    THEN <<S_squeue, <<"-", "o", " ", "\"", "%", "u", "\"">>, <<"-", "u">>, username>>
    ELSE <<S_qstat, <<"-", "u">>, username>>

\* the header branch of the loop body (lines 78-86)
njobs_header(self, acc, l) ==
    IF ~startswith(lower(l), S_job) THEN acc
    ELSE LET header == split(l)
             s_name == IF self.q_type = S_PBS THEN S_S ELSE S_state
             q_name == IF self.q_type = S_PBS THEN S_Queue ELSE S_queue
             off == IF self.q_type = S_PBS THEN 1 ELSE 0
         IN  IF index(header, s_name) = -1
             THEN [acc EXCEPT !.exc = "ValueError"]
             ELSE IF index(header, q_name) = -1
             \* state_index is assigned before header.index of the queue column raises
             THEN [acc EXCEPT !.exc = "ValueError", !.state_bound = TRUE,
                              !.state_index = index(header, s_name) - off]
             ELSE [acc EXCEPT !.state_bound = TRUE, !.queue_bound = TRUE,
                              !.state_index = index(header, s_name) - off,
                              !.queue_index = index(header, q_name) - off]

\* the row branch of the loop body (lines 87-94)
njobs_row(self, acc, l, username) ==
    IF acc.exc # "" \/ ~contains(l, username) THEN acc
    ELSE LET toks == split(l)
         IN  IF ~acc.state_bound THEN [acc EXCEPT !.exc = "UnboundLocalError"]
             ELSE IF ~InRange(toks, acc.state_index) THEN [acc EXCEPT !.exc = "IndexError"]
             ELSE IF item(toks, acc.state_index) = S_C THEN acc
             ELSE IF S_queue \notin DOMAIN self.opts THEN acc
             ELSE IF ~acc.queue_bound THEN [acc EXCEPT !.exc = "UnboundLocalError"]
             ELSE IF ~InRange(toks, acc.queue_index) THEN [acc EXCEPT !.exc = "IndexError"]
             ELSE IF contains(item(toks, acc.queue_index),
                              slice0(self.opts[S_queue],
                                     Len(item(toks, acc.queue_index))))
                  THEN [acc EXCEPT !.count = acc.count + 1]
                  ELSE acc

\* the for loop over output_str.split('\n') (lines 77-94)
RECURSIVE njobs_loop(_, _, _, _, _)
njobs_loop(self, lines, i, username, acc) ==
    IF i > Len(lines) \/ acc.exc # "" THEN acc
    ELSE njobs_loop(self, lines, i + 1, username,
                    njobs_row(self, njobs_header(self, acc, lines[i]), lines[i], username))

_parse_njobs(self, output_str, username) ==
    IF self.q_type = S_SLURM
    THEN LET outs == split_lines(output_str)
         IN  Return(PyInt(Cardinality({i \in 1..Len(outs) : contains(outs[i], username)})))
    ELSE LET acc == njobs_loop(self, split_lines(output_str), 1, username,
                               [count |-> 0, exc |-> "",
                                state_bound |-> FALSE, queue_bound |-> FALSE,
                                state_index |-> 0, queue_index |-> 0])
         IN  IF acc.exc # "" THEN Raise(acc.exc) ELSE Return(PyInt(acc.count))

---------------------------------------------------------------------------
(* The collaborators: the command runner and the current user              *)

CurrentUser == <<"a", "l">>

\* Command(cmd).run(timeout): a command still running at the timeout is
\* terminated, which leaves the status of a killed process, never 0
Command_run(cmd, timeout, behaviour) ==
    IF behaviour.seconds > timeout
    THEN <<0 - 15, behaviour.stdout, behaviour.stderr>>
    ELSE <<behaviour.exit, behaviour.stdout, behaviour.stderr>>

Event(ev, arg) == [ev |-> ev, arg |-> arg]

\* get_qlogger('qadapter.{}'.format(self.q_name))
get_qlogger(self) == Event("get_qlogger", S_qadapter \o self.q_name)

---------------------------------------------------------------------------
(* The two calls                                                           *)

\* the branch taken on return code 0 (lines 121-131)
submit_parse(self, cmd, proc, begin) ==
    LET job_id == _parse_jobid(self, proc.stdout)
        parse == <<Event("wait", cmd), Event("stdout.read", cmd),
                   Event("_parse_jobid", proc.stdout)>>
    IN  IF job_id.kind = "return"
        THEN [self |-> self, outcome |-> Return(job_id.val),
              events |-> begin \o parse \o <<Event("info", job_id.val)>>]
        ELSE [self |-> self, outcome |-> Return(PyNone),
              events |-> begin \o parse \o <<Event("log_exception", self.submit_cmd)>>]

\* the branch taken on any other return code (lines 133-139)
submit_error(self, cmd, proc, begin) ==
    [self |-> self, outcome |-> Return(PyNone),
     events |-> begin \o <<Event("wait", cmd), Event("stderr.read", cmd),
                           Event("log_fancy", "error")>>]

\* a submit that parses stdout whatever the return code
submit_branch_always_parse(self, cmd, proc, begin) ==
    submit_parse(self, cmd, proc, begin)

\* `if p.returncode == 0` (line 120)
submit_branch(self, cmd, proc, begin) ==
    IF proc.returncode = 0
    THEN submit_parse(self, cmd, proc, begin)
    ELSE submit_error(self, cmd, proc, begin)

\* the logger and the try block (lines 110-145)
submit_run(self, script_file, proc) ==
    LET cmd == <<self.submit_cmd, script_file>>
        begin == <<get_qlogger(self), Event("Popen", cmd)>>
    IN  IF ~proc.launch
        THEN [self |-> self, outcome |-> Return(PyNone),
              events |-> begin \o <<Event("log_exception", self.submit_cmd)>>]
        ELSE submit_branch(self, cmd, proc, begin)

\* a submit without the os.path.exists check
submit_unchecked(self, script_file, proc) ==
    submit_run(self, script_file, proc)

submit_to_queue(self, script_file, proc) ==
    IF ~exists(script_file)
    THEN [self |-> self, outcome |-> Raise("ValueError"), events |-> <<>>]
    ELSE submit_run(self, script_file, proc)

\* a failure path that reports zero jobs
njobs_error_zero(self, begin) ==
    [self |-> self, outcome |-> Return(PyInt(0)),
     events |-> begin \o <<Event("log_fancy", "error")>>]

\* the status command failed (lines 172-176)
njobs_error(self, begin) ==
    [self |-> self, outcome |-> Return(PyNone),
     events |-> begin \o <<Event("log_fancy", "error")>>]

get_njobs_in_queue(self, username, behaviour) ==
    LET user == IF username = None THEN CurrentUser ELSE username
        cmd == _get_status_cmd(self, user)
        p == Command_run(cmd, 5, behaviour)
        begin == <<get_qlogger(self), Event("Command.run", cmd)>>
    IN  IF item(p, 0) = 0
        THEN LET njobs == _parse_njobs(self, item(p, 1), user)
             IN  IF njobs.kind = "raise"
                 THEN [self |-> self, outcome |-> njobs,
                       events |-> begin \o <<Event("_parse_njobs", item(p, 1))>>]
                 ELSE [self |-> self, outcome |-> Return(njobs.val),
                       events |-> begin \o <<Event("_parse_njobs", item(p, 1)),
                                             Event("info", njobs.val)>>]
        ELSE njobs_error(self, begin)

---------------------------------------------------------------------------
(* Inputs of the lifecycle specification                                   *)

U_bo == <<"b", "o">>

Q_b == <<"b">>

Q_ba == <<"b", "a">>

K_nodes == <<"n", "o", "d", "e", "s">>

K_fwd == <<"_", "f", "w", "d">>

QTypes == {S_PBS, S_SGE, S_SLURM, <<"L", "S", "F">>, <<"p", "b", "s">>}

QNames == {None, <<>>, S_PBS, <<"m", "y">>}

TemplateFiles == {None, <<"t">>, <<"/", "t">>, _get_default_template_file(S_PBS)}

KwargsSet ==
    { EmptyDict,
      (S_queue :> Q_b),
      (S_queue :> Q_ba) @@ (K_nodes :> <<"2">>),
      (K_fwd :> <<"1">>),
      (S_fw_q_name :> <<"m", "y">>) @@ (S_queue :> Q_b) }

\* outputs of the submit and status commands
STDOUT_SLURM ==
    <<"S", "u", "b", "m", "i", "t", "t", "e", "d", " ", "b", "a", "t", "c", "h", " ", "j", "o", "b", " ", "1", "2">>

STDOUT_PBS ==
    <<"3", "4", ".", "s", "r", "v">>

STDOUT_SGE ==
    <<"Y", "o", "u", "r", " ", "j", "o", "b", " ", "5", "6", " ", "(", "\"", "j", "7", "\"", ")", " ", "h", "a", "s", " ", "b", "e", "e", "n", " ", "s", "u", "b", "m", "i", "t", "t", "e", "d">>

STDOUT_NOID ==
    <<"q", "s", "u", "b", ":", " ", "o", "k">>

TABLE_PBS ==
    <<"s", "r", "v", ":", "\n", "J", "o", "b", " ", "I", "D", " ", "U", "s", "e", "r", "n", "a", "m", "e", " ", "Q", "u", "e", "u", "e", " ", "S", "\n", "1", ".", "s", "r", "v", " ", "a", "l", " ", "b", "a", " ", "R", "\n", "2", ".", "s", "r", "v", " ", "a", "l", " ", "b", "a", " ", "C", "\n", "3", ".", "s", "r", "v", " ", "b", "o", " ", "b", "a", " ", "R", "\n", "4", ".", "s", "r", "v", " ", "a", "l", " ", "x", "b", " ", "Q">>

TABLE_SGE ==
    <<"j", "o", "b", "-", "I", "D", " ", "u", "s", "e", "r", " ", "s", "t", "a", "t", "e", " ", "q", "u", "e", "u", "e", "\n", "1", " ", "a", "l", " ", "r", " ", "b", "a", "\n", "2", " ", "b", "o", " ", "r", " ", "b", "a", "\n", "3", " ", "a", "l", " ", "C", " ", "b", "a">>

TABLE_SLURM ==
    <<"U", "S", "E", "R", "\n", "a", "l", "\n", "a", "l", "\n", "b", "o">>

TABLE_NOHEADER ==
    <<"1", ".", "s", "r", "v", " ", "a", "l", " ", "b", "a", " ", "R">>

TABLE_NOCOLUMN ==
    <<"J", "o", "b", " ", "I", "D", " ", "U", "s", "e", "r", "n", "a", "m", "e", "\n", "j", "o", "b", "-", "I", "D", " ", "u", "s", "e", "r", "\n", "1", ".", "s", "r", "v", " ", "a", "l", " ", "b", "a", " ", "R">>

TABLE_SHORTROW ==
    <<"J", "o", "b", " ", "I", "D", " ", "U", "s", "e", "r", "n", "a", "m", "e", " ", "Q", "u", "e", "u", "e", " ", "S", "\n", "j", "o", "b", "-", "I", "D", " ", "u", "s", "e", "r", " ", "s", "t", "a", "t", "e", " ", "q", "u", "e", "u", "e", "\n", "a", "l">>

ScriptFiles == {ScriptOk, ScriptMissing}

SubmitStdouts ==
    { STDOUT_SLURM,
      STDOUT_PBS,
      STDOUT_SGE,
      STDOUT_NOID }

\* what the submit process does: it cannot be launched, or exits with a code
SubmitProcs ==
    {[launch |-> FALSE, returncode |-> 1, stdout |-> <<>>, stderr |-> <<>>]}
    \cup [launch : {TRUE}, returncode : {0}, stdout : SubmitStdouts, stderr : {<<>>}]
    \cup [launch : {TRUE}, returncode : {1}, stdout : {STDOUT_PBS}, stderr : {<<"e">>}]

Usernames == {None, U_bo}

StatusTables ==
    { <<>>,
      TABLE_PBS,
      TABLE_SGE,
      TABLE_SLURM,
      TABLE_NOHEADER,
      TABLE_NOCOLUMN,
      TABLE_SHORTROW }

\* what the status process does: its exit code, output and running time
StatusBehaviours ==
    [exit : {0}, stdout : StatusTables, stderr : {<<>>}, seconds : {1}]
    \cup [exit : {1}, stdout : {<<>>}, stderr : {<<"e">>}, seconds : {1}]
    \cup [exit : {0, 1}, stdout : {TABLE_PBS}, stderr : {<<>>}, seconds : {9}]

---------------------------------------------------------------------------
(* The lifecycle: an adapter is constructed once, then called any number   *)
(* of times.  last records the latest call, events what that call did.     *)

Init ==
    /\ adapter = NoAdapter
    /\ last = [op |-> "none", args |-> <<>>, outcome |-> Return(PyNone)]
    /\ events = <<>>

Create(q_type, q_name, template_file, kwargs) ==
    /\ adapter = NoAdapter
    /\ LET r == __init__(q_type, q_name, template_file, kwargs)
       IN  /\ adapter' = IF r.kind = "return" THEN r.val ELSE NoAdapter
           /\ last' = [op |-> "create",
                       args |-> [q_type |-> q_type, q_name |-> q_name,
                                 template_file |-> template_file, kwargs |-> kwargs],
                       outcome |-> r]
           /\ events' = <<>>

SubmitToQueue(script_file, proc) ==
    /\ adapter # NoAdapter
    /\ LET r == submit_to_queue(adapter, script_file, proc)
       IN  /\ adapter' = r.self
           /\ last' = [op |-> "submit_to_queue",
                       args |-> [script_file |-> script_file, proc |-> proc],
                       outcome |-> r.outcome]
           /\ events' = r.events

GetNjobsInQueue(username, behaviour) ==
    /\ adapter # NoAdapter
    /\ LET r == get_njobs_in_queue(adapter, username, behaviour)
       IN  /\ adapter' = r.self
           /\ last' = [op |-> "get_njobs_in_queue",
                       args |-> [username |-> username, behaviour |-> behaviour],
                       outcome |-> r.outcome]
           /\ events' = r.events

ToDict ==
    /\ adapter # NoAdapter
    /\ LET r == to_dict(adapter)
       IN  /\ adapter' = r.self
           /\ last' = [op |-> "to_dict", args |-> <<>>, outcome |-> r.outcome]
           /\ events' = <<>>

\* from_dict on the mapping the preceding to_dict produced
FromDict ==
    /\ last.op = "to_dict"
    /\ last' = [op |-> "from_dict", args |-> last.outcome.val,
                outcome |-> from_dict(last.outcome.val)]
    /\ events' = <<>>
    /\ UNCHANGED adapter

Next ==
    \/ \E q_type \in QTypes, q_name \in QNames,
          template_file \in TemplateFiles, kwargs \in KwargsSet :
            Create(q_type, q_name, template_file, kwargs)
    \/ \E script_file \in ScriptFiles, proc \in SubmitProcs :
            SubmitToQueue(script_file, proc)
    \/ \E username \in Usernames, behaviour \in StatusBehaviours :
            GetNjobsInQueue(username, behaviour)
    \/ ToDict
    \/ FromDict

Spec == Init /\ [][Next]_vars

---------------------------------------------------------------------------
(* Properties of the lifecycle specification                               *)

Supported(q_type) == q_type \in {S_PBS, S_SGE, S_SLURM}

NoReservedKeys(self) == \A k \in DOMAIN self.opts : ~startswith(k, S_fw)

LogEvents(evs, kinds) == {i \in 1..Len(evs) : evs[i].ev \in kinds}

Launches(evs) == LogEvents(evs, {"Popen", "Command.run"})

\* C1 (as stated): from_dict(to_dict(adapter)) is an adapter identical to
\* the adapter, whatever the keys of its open configuration.
C1_RoundTripAnyKeys ==
    last.op = "from_dict" => last.outcome = Return(adapter)

\* C1 (amended): for an adapter none of whose open-configuration keys
\* starts with the reserved prefix "_fw", from_dict(to_dict(adapter)) has
\* the same queue type, queue name, template file, submit command and open
\* configuration.
C1_RoundTrip ==
    (last.op = "from_dict" /\ NoReservedKeys(adapter)) =>
        /\ last.outcome.kind = "return"
        /\ last.outcome.val.q_type = adapter.q_type
        /\ last.outcome.val.q_name = adapter.q_name
        /\ last.outcome.val.template_file = adapter.template_file
        /\ last.outcome.val.submit_cmd = adapter.submit_cmd
        /\ last.outcome.val.opts = adapter.opts

\* C1 witness: a round trip of an adapter with a queue name of its own, a
\* template file of its own and two open-configuration entries.
C1_Witness ==
    /\ last.op = "from_dict"
    /\ NoReservedKeys(adapter)
    /\ adapter.q_name # adapter.q_type
    /\ adapter.template_file # _get_default_template_file(adapter.q_type)
    /\ Cardinality(DOMAIN adapter.opts) = 2
    /\ last.outcome = Return(adapter)

\* C8: create succeeds exactly for PBS, SGE and SLURM; any other type
\* raises ValueError and leaves no adapter; on success the submit command
\* is sbatch exactly for SLURM and qsub otherwise, and the queue name is the
\* queue type when none was given.
C8_Create ==
    last.op = "create" =>
        /\ (last.outcome.kind = "return") <=> Supported(last.args.q_type)
        /\ last.outcome.kind = "raise" =>
              last.outcome.exc = "ValueError" /\ adapter = NoAdapter
        /\ last.outcome.kind = "return" =>
              /\ adapter = last.outcome.val
              /\ adapter.q_type = last.args.q_type
              /\ (adapter.submit_cmd = S_sbatch) <=> (last.args.q_type = S_SLURM)
              /\ adapter.submit_cmd \in {S_sbatch, S_qsub}
              /\ last.args.q_name = None => adapter.q_name = last.args.q_type

\* C8 witness: create was called with an unsupported type and raised.
C8_Witness ==
    /\ last.op = "create"
    /\ ~Supported(last.args.q_type)
    /\ last.outcome = Raise("ValueError")
    /\ adapter = NoAdapter

\* C6: submit_to_queue on a path that is no existing file raises ValueError
\* before anything else happens: no logger, no subprocess, no log event.
C6_ScriptNotFound ==
    (last.op = "submit_to_queue" /\ ~exists(last.args.script_file)) =>
        /\ last.outcome = Raise("ValueError")
        /\ events = <<>>

\* C6 witness: submit_to_queue was called on the missing script, with a
\* submit command that would have launched and succeeded.
C6_Witness ==
    /\ last.op = "submit_to_queue"
    /\ last.args.script_file = ScriptMissing
    /\ last.args.proc.launch
    /\ last.args.proc.returncode = 0
    /\ last.outcome.kind = "raise"

\* C9: for an existing script, submit_to_queue returns a job id exactly
\* when the process was launched, exited 0 and its stdout parsed; the info
\* event carrying that id is then the last thing the call does.  Otherwise
\* it returns None after exactly one error or exception event, and on a
\* nonzero exit stdout is neither read nor parsed.
C9_SubmitOutcome ==
    (last.op = "submit_to_queue" /\ exists(last.args.script_file)) =>
        LET proc == last.args.proc
            parsed == _parse_jobid(adapter, proc.stdout)
            ok == proc.launch /\ proc.returncode = 0 /\ parsed.kind = "return"
            infos == LogEvents(events, {"info"})
            errors == LogEvents(events, {"log_exception", "log_fancy"})
        IN  /\ last.outcome.kind = "return"
            /\ (last.outcome.val # PyNone) <=> ok
            /\ ok => /\ last.outcome.val = parsed.val
                     /\ events[Len(events)] = Event("info", parsed.val)
                     /\ Cardinality(infos) = 1
                     /\ errors = {}
            /\ ~ok => /\ Cardinality(errors) = 1
                      /\ infos = {}
            /\ (proc.launch /\ proc.returncode # 0) =>
                  LogEvents(events, {"stdout.read", "_parse_jobid"}) = {}

\* C9 witness: the submit command exited 0 with a stdout holding no job
\* id, and the call returned None after logging the exception.
C9_Witness ==
    /\ last.op = "submit_to_queue"
    /\ exists(last.args.script_file)
    /\ last.args.proc.launch
    /\ last.args.proc.returncode = 0
    /\ _parse_jobid(adapter, last.args.proc.stdout).kind = "raise"
    /\ last.outcome = Return(PyNone)
    /\ LogEvents(events, {"log_exception"}) # {}

\* C10: once constructed, the adapter is never changed by a call, and a
\* call launches at most one external process.
C10_Stateless ==
    [][adapter # NoAdapter =>
          /\ adapter' = adapter
          /\ Cardinality(Launches(events')) <= 1]_vars

\* C10 witness: a call has failed by raising, on an adapter that holds a
\* queue entry, after launching the one status command.
C10_Witness ==
    /\ adapter # NoAdapter
    /\ S_queue \in DOMAIN adapter.opts
    /\ last.op = "get_njobs_in_queue"
    /\ last.outcome.kind = "raise"
    /\ Cardinality(Launches(events)) = 1

\* C4 (as stated): no call to submit_to_queue on an existing script and no
\* call to get_njobs_in_queue raises; a failure is logged and returns None.
C4_NeverRaises ==
    (\/ last.op = "get_njobs_in_queue"
     \/ (last.op = "submit_to_queue" /\ exists(last.args.script_file))) =>
        /\ last.outcome.kind = "return"
        /\ last.outcome.val = PyNone =>
              LogEvents(events, {"log_exception", "log_fancy"}) # {}

---------------------------------------------------------------------------
(* The status query on well-formed tables: a header line of the adapter's  *)
(* or the other format, then up to MaxRows job rows                        *)

MaxRows == 2

Q_ab == <<"a", "b">>

S_R == <<"R">>

HEADER_PBS ==
    <<"J", "o", "b", " ", "I", "D", " ", "U", "s", "e", "r", "n", "a", "m", "e", " ", "Q", "u", "e", "u", "e", " ", "S">>

HEADER_SGE ==
    <<"j", "o", "b", "-", "I", "D", " ", "u", "s", "e", "r", " ", "s", "t", "a", "t", "e", " ", "q", "u", "e", "u", "e">>

Rows == [user : {CurrentUser, U_bo}, queue : {Q_b, Q_ab, Q_ba}, state : {S_R, S_C}]

RowSeqs == UNION {[1..n -> Rows] : n \in 0..MaxRows}

NjobsKwargs == {EmptyDict, (S_queue :> Q_b), (S_queue :> Q_ba)}

RECURSIVE Join(_, _)
Join(strs, sep) ==
    IF strs = <<>> THEN <<>>
    ELSE IF Len(strs) = 1 THEN strs[1]
    ELSE strs[1] \o sep \o Join(Tail(strs), sep)

\* row i of a table: job id, user, then queue and state in the format's order
RowLine(fmt, i, row) ==
    IF fmt = "PBS"
    THEN Join(<<<<DigitChars[i + 1]>>, row.user, row.queue, row.state>>, <<" ">>)
    ELSE Join(<<<<DigitChars[i + 1]>>, row.user, row.state, row.queue>>, <<" ">>)

Render(fmt, rows) ==
    Join(<<IF fmt = "PBS" THEN HEADER_PBS ELSE HEADER_SGE>>
         \o [i \in 1..Len(rows) |-> RowLine(fmt, i, rows[i])], <<"\n">>)

InitNjobs ==
    /\ adapter \in {new_adapter(t, None, None, kw) :
                       t \in {S_PBS, S_SGE, S_SLURM}, kw \in NjobsKwargs}
    /\ \E fmt \in {"PBS", "SGE"}, rows \in RowSeqs, username \in {None, U_bo} :
          last = [op |-> "input",
                  args |-> [fmt |-> fmt, rows |-> rows, username |-> username,
                            behaviour |-> [exit |-> 0, stdout |-> Render(fmt, rows),
                                           stderr |-> <<>>, seconds |-> 1]],
                  outcome |-> Return(PyNone)]
    /\ events = <<>>

QueryNjobs ==
    /\ last.op = "input"
    /\ LET r == get_njobs_in_queue(adapter, last.args.username, last.args.behaviour)
       IN  /\ adapter' = r.self
           /\ last' = [op |-> "get_njobs_in_queue", args |-> last.args,
                       outcome |-> r.outcome]
           /\ events' = r.events

NextNjobs == QueryNjobs

SpecNjobs == InitNjobs /\ [][NextNjobs]_vars

\* the query was made by a PBS or SGE adapter on a table of its own format
OwnFormat ==
    /\ last.op = "get_njobs_in_queue"
    /\ \/ adapter.q_type = S_PBS /\ last.args.fmt = "PBS"
       \/ adapter.q_type = S_SGE /\ last.args.fmt = "SGE"

QueryUser == IF last.args.username = None THEN CurrentUser ELSE last.args.username

ActiveRows ==
    {i \in 1..Len(last.args.rows) :
        /\ last.args.rows[i].user = QueryUser
        /\ last.args.rows[i].state # S_C}

\* C2 (as stated): with no queue entry configured, a PBS or SGE adapter
\* returns the number of rows of the user whose state is not "C"; one
\* matching row in state "R" gives 1.
C2_CountWithoutQueue ==
    (OwnFormat /\ S_queue \notin DOMAIN adapter.opts) =>
        last.outcome = Return(PyInt(Cardinality(ActiveRows)))

\* C3 (as stated): with a queue entry configured, a row of the user whose
\* state is not "C" is counted exactly when its queue token starts with
\* the configured name cut to the token's length.
C3_QueuePrefix ==
    (OwnFormat /\ S_queue \in DOMAIN adapter.opts) =>
        last.outcome =
            Return(PyInt(Cardinality(
                {i \in ActiveRows :
                    startswith(last.args.rows[i].queue,
                               slice0(adapter.opts[S_queue],
                                      Len(last.args.rows[i].queue)))})))

---------------------------------------------------------------------------
(* Job-id parsing on every output of up to MaxLen characters over two digits,*)
(* a blank and a sign, and on the outputs the three schedulers print       *)

MaxLen == 8

JobidChars == {"1", "7", " ", "-"}

EXAMPLE_SLURM ==
    <<"S", "u", "b", "m", "i", "t", "t", "e", "d", " ", "b", "a", "t", "c", "h", " ", "j", "o", "b", " ", "1", "2", "3", "4", "5", "6", "\n">>

EXAMPLE_PBS ==
    <<"1", "2", "3", "4", ".", "s", "e", "r", "v", "e", "r", "n", "a", "m", "e">>

EXAMPLE_SGE ==
    <<"Y", "o", "u", "r", " ", "j", "o", "b", " ", "4", "4", "2", "7", "5", " ", "(", "\"", "j", "o", "b", "n", "a", "m", "e", "\"", ")", " ", "h", "a", "s", " ", "b", "e", "e", "n", " ", "s", "u", "b", "m", "i", "t", "t", "e", "d">>

JobidOutputs ==
    UNION {[1..n -> JobidChars] : n \in 0..MaxLen}
    \cup {EXAMPLE_SLURM, EXAMPLE_PBS, EXAMPLE_SGE}

InitJobid ==
    /\ adapter \in {new_adapter(t, None, None, EmptyDict) : t \in {S_PBS, S_SGE, S_SLURM}}
    /\ \E output_str \in JobidOutputs :
          last = [op |-> "input", args |-> output_str, outcome |-> Return(PyNone)]
    /\ events = <<>>

ParseJobid ==
    /\ last.op = "input"
    /\ last' = [op |-> "_parse_jobid", args |-> last.args,
                outcome |-> _parse_jobid(adapter, last.args)]
    /\ UNCHANGED <<adapter, events>>

NextJobid == ParseJobid

SpecJobid == InitJobid /\ [][NextJobid]_vars

\* positions of s where a whitespace-delimited token starts
TokenStarts(s) ==
    {i \in 1..Len(s) : ~IsSpace(s[i]) /\ (i = 1 \/ IsSpace(s[i - 1]))}

\* the token of s that starts at position i
TokenAt(s, i) ==
    SubSeq(s, i, CHOOSE j \in i..Len(s) :
                    /\ \A k \in i..j : ~IsSpace(s[k])
                    /\ (j = Len(s) \/ IsSpace(s[j + 1])))

\* the start of the 4th token of s, when there is one
FourthStart(s) ==
    CHOOSE i \in TokenStarts(s) : Cardinality({k \in TokenStarts(s) : k < i}) = 3

\* tok is an integer literal: an optional sign, then one or more digits
IsIntLiteral(tok) ==
    \E i \in 1..2 :
        /\ i = 2 => (Len(tok) >= 1 /\ tok[1] \in {"+", "-"})
        /\ Len(tok) >= i
        /\ \A k \in i..Len(tok) : IsDigit(tok[k])

\* the number a string of digits denotes, from its last digit backwards
RECURSIVE NatOf(_)
NatOf(ds) ==
    IF ds = <<>> THEN 0
    ELSE DigitVal(ds[Len(ds)]) + 10 * NatOf(SubSeq(ds, 1, Len(ds) - 1))

IntOf(tok) ==
    IF tok[1] = "-" THEN 0 - NatOf(Tail(tok))
    ELSE IF tok[1] = "+" THEN NatOf(Tail(tok))
    ELSE NatOf(tok)

=============================================================================
